---- MODULE Spec2Model ----
(***************************************************************************)
(* Archive ingestion and conversion orchestrator of assas_database:        *)
(* AssasDatabaseManager (assas_database_manager.py) working on the document *)
(* store behind AssasDatabaseHandler (assas_database_handler.py).           *)
(*                                                                         *)
(* The store is the file collection in its natural (insertion) order.  An  *)
(* orchestrator process is at rest ("idle"), inside one of its operations, *)
(* or has just returned from one ("done", with the return value in ret).   *)
(* convert_archives_to_hdf5 is modelled statement by statement, one step   *)
(* per store access and one for the converter call, because its            *)
(* intermediate store writes are visible to other readers of the store.    *)
(***************************************************************************)
EXTENDS Integers, Sequences, FiniteSets, TLC

\* Largest number of documents the store holds.
MaxDocs == 2

\* byte counts are mantissa * 1024^exponent, within these bounds
MaxMantissa == 2047

MaxExponent == 5

\* Orchestrator processes.  Spec runs process 1 alone, SpecRace runs both.
Procs == 1..2

\* AssasDocumentFileStatus
UPLOADED == "Uploaded"
INVALID == "Invalid"
VALIDATING == "Validating"
VALIDATED == "Validated"
CONVERTING == "Converting"
CONVERTED == "Converted"
FAILED == "Failed"

\* The status string the specification calls Corrupted.  The class
\* AssasDocumentFileStatus has no such member; a document carries the string
\* only when it was written to the store with it.
CORRUPTED_STRING == "Corrupted"

AllStatuses ==
    {UPLOADED, INVALID, VALIDATING, VALIDATED, CONVERTING, CONVERTED, FAILED,
     CORRUPTED_STRING}

\* upload uuids of the batches under the upload root
UploadUuids == {"u1", "u2"}

\* Values of the number_of_archives_to_convert argument (default -1).
Limits == (0 - 1)..(MaxDocs + 1)

----------------------------------------------------------------------------
\* Sizes.  A formatted size f'{round(num, 2)} {x}' is kept as the rounded
\* number in hundredths, the unit, and whether Python prints it as a float
\* ("512.0 B") or as an int ("512 B").

\* the key system_size_hdf5 is absent from the document
Unset == [hundredths |-> 0 - 1, unit |-> "unset", float |-> FALSE]

\* Python None
None == [hundredths |-> 0 - 1, unit |-> "None", float |-> FALSE]

\* size string written at registration: f'{...} GB' (an estimate)
EstimatedSize == [hundredths |-> 0, unit |-> "GB", float |-> TRUE]

Units == <<"B", "KB", "MB", "GB", "TB">>

blocksize == 1024

\* round(n / d, 2) in hundredths, ties to even
RoundHundredths(n, d) ==
    LET q == (n * 100) \div d
        r == (n * 100) % d
    IN  IF 2 * r > d \/ (2 * r = d /\ q % 2 = 1) THEN q + 1 ELSE q

RECURSIVE convert_loop(_, _, _, _)
convert_loop(n, d, i, isfloat) ==
    IF i > Len(Units) THEN None
    ELSE IF n < blocksize * d
         THEN [hundredths |-> RoundHundredths(n, d), unit |-> Units[i],
               float |-> isfloat]
         ELSE convert_loop(n, d * blocksize, i + 1, TRUE)

\* convert_from_bytes(num): num is a whole number of bytes, given as a float
\* (isfloat) or as an int
convert_from_bytes(num, isfloat) == convert_loop(num, 1, 1, isfloat)

\* The same loop for a byte count too large to write out: num is
\* mantissa * 1024^exponent.  While the exponent is positive the count is not
\* below the blocksize, and a division by 1024.0 takes one off the exponent.
RECURSIVE convert_loop_scaled(_, _, _, _)
convert_loop_scaled(mantissa, exponent, i, isfloat) ==
    IF i > Len(Units) THEN None
    ELSE IF exponent = 0 \/ mantissa = 0
         THEN convert_loop(mantissa, 1, i, isfloat)
         ELSE convert_loop_scaled(mantissa, exponent - 1, i + 1, TRUE)

convert_from_scaled_bytes(mantissa, exponent, isfloat) ==
    convert_loop_scaled(mantissa, exponent, 1, isfloat)

\* What os.path says about a path.
PathKinds == {"file", "dir", "absent"}

\* st_size of the regular files the model looks at / du -sb of the archives
FileSizes == {1536}

\* variant: a directory is answered like a path that does not exist
file_size_directory_none(kind, st_size) ==
    IF kind = "file"
    THEN [raised |-> FALSE, value |-> convert_loop(st_size, 1, 1, FALSE)]
    ELSE [raised |-> FALSE, value |-> None]

\* file_size(file_path): the size string of a regular file, NotImplementedError
\* for a directory, and None (the function falls off its end) otherwise.
file_size(kind, st_size) ==
    IF kind = "file"
    THEN [raised |-> FALSE, value |-> convert_from_bytes(st_size, FALSE)]
    ELSE IF kind = "dir"
         THEN [raised |-> TRUE, value |-> None]
         ELSE [raised |-> FALSE, value |-> None]

----------------------------------------------------------------------------
\* The document store (AssasDatabaseHandler over one MongoDB collection).

\* result_path = archive_path + '/../result/dataset.h5'
result_path(archive_path) == <<archive_path, "/../result/dataset.h5">>

\* indexes of the documents a filter matches, in store order
RECURSIVE Matching(_, _, _)
Matching(docs, i, status) ==
    IF i > Len(docs) THEN <<>>
    ELSE IF docs[i].system_status = status
         THEN <<docs[i]>> \o Matching(docs, i + 1, status)
         ELSE Matching(docs, i + 1, status)

\* find({'system_status': status})
get_file_documents_by_status(docs, status) == Matching(docs, 1, status)

\* variant: every upload is taken for a new one
NoDocumentForUpload_always(docs, upload_uuid) == TRUE

\* find_one({'system_upload_uuid': str(upload_uuid)}) is None
NoDocumentForUpload(docs, upload_uuid) ==
    \A i \in 1..Len(docs) : docs[i].system_upload_uuid # upload_uuid

\* {"$set": update}: the keys of update replace those of the document; a key
\* the update does not hold is left as it is
SetFields(doc, update) ==
    [doc EXCEPT
        !.id = update.id,
        !.system_uuid = update.system_uuid,
        !.system_upload_uuid = update.system_upload_uuid,
        !.system_path = update.system_path,
        !.system_result = update.system_result,
        !.system_size = update.system_size,
        !.system_size_hdf5 =
            IF update.system_size_hdf5 = Unset THEN @
            ELSE update.system_size_hdf5,
        !.system_status = update.system_status]

\* variant: the update is written to the first document of the store
update_file_document_by_path_first(docs, path, update) ==
    IF docs = <<>> THEN docs
    ELSE [docs EXCEPT ![1] = SetFields(docs[1], update)]

\* variant: the document found is removed
update_file_document_by_path_delete(docs, path, update) ==
    LET hits == {i \in 1..Len(docs) : docs[i].system_path = path}
    IN  IF hits = {} THEN docs
        ELSE LET first == CHOOSE i \in hits : \A j \in hits : i <= j
             IN  SubSeq(docs, 1, first - 1) \o
                 SubSeq(docs, first + 1, Len(docs))

\* update_one({'system_path': path}, {"$set": update}): the first document
\* with that path is updated, none if no document has it
update_file_document_by_path(docs, path, update) ==
    LET hits == {i \in 1..Len(docs) : docs[i].system_path = path}
    IN  IF hits = {} THEN docs
        ELSE LET first == CHOOSE i \in hits : \A j \in hits : i <= j
             IN  [docs EXCEPT ![first] = SetFields(docs[first], update)]

\* an identifier no document of the store has: an ObjectId, a uuid4()
FreshId(docs) ==
    CHOOSE n \in 1..(Len(docs) + 1) :
        /\ \A i \in 1..Len(docs) : docs[i].id # n
        /\ \A m \in 1..(n - 1) : \E i \in 1..Len(docs) : docs[i].id = m

\* insert_one(file): the store assigns the id
insert_file_document(docs, file) ==
    Append(docs, [file EXCEPT !.id = FreshId(docs)])

\* variant: nothing is removed
delete_file_document_by_upload_uuid_none(docs, upload_uuid) == docs

\* find_one({'system_upload_uuid': str(upload_uuid)}): the first document
\* with that upload uuid, as a sequence of one, or none
get_file_document_by_upload_uuid(docs, upload_uuid) ==
    LET hits == {i \in 1..Len(docs) :
                    docs[i].system_upload_uuid = upload_uuid}
    IN  IF hits = {} THEN <<>>
        ELSE <<docs[CHOOSE i \in hits : \A j \in hits : i <= j]>>

\* delete_one({'system_upload_uuid': str(upload_uuid)}): the first document
\* with that upload uuid is removed, none if no document has it
delete_file_document_by_upload_uuid(docs, upload_uuid) ==
    LET hits == {i \in 1..Len(docs) :
                    docs[i].system_upload_uuid = upload_uuid}
    IN  IF hits = {} THEN docs
        ELSE LET first == CHOOSE i \in hits : \A j \in hits : i <= j
             IN  SubSeq(docs, 1, first - 1) \o
                 SubSeq(docs, first + 1, Len(docs))

----------------------------------------------------------------------------
\* no process_uploads is running
NoScan ==
    [listing |-> <<>>, descriptor |-> <<>>, probes |-> <<>>,
     lists_of_saving_time |-> <<>>, detected |-> <<>>, archive_list |-> <<>>,
     error |-> "none"]

\* no handler or helper function was called yet
NoCall == [fn |-> "none"]

VARIABLES
    store,      \* the file collection, in natural order
    pc,         \* where each process is
    op,         \* the operation each process is in or has returned from
    limit,      \* number_of_archives_to_convert of the running call
    document_file_list, \* the in-memory copies the running call works on
    idx,        \* position of the running loop in document_file_list
    before,     \* the store as it was when the operation was called
    converter,  \* the converter call of the running call: "not_called",
                \* "running", "returned" or "raised"
    size_raised,\* whether file_size raised in the running call
    ret,        \* the value the operation returned
    scan,       \* what the running process_uploads read and did
    call        \* the last call of a handler or helper function, with its
                \* arguments and its result

vars ==
    <<store, pc, op, limit, document_file_list, idx, before, converter,
      size_raised, ret, scan, call>>

Init ==
    /\ store = <<>>
    /\ pc = [p \in Procs |-> "idle"]
    /\ op = [p \in Procs |-> "none"]
    /\ limit = [p \in Procs |-> 0 - 1]
    /\ document_file_list = [p \in Procs |-> <<>>]
    /\ idx = [p \in Procs |-> 1]
    /\ before = [p \in Procs |-> <<>>]
    /\ converter = [p \in Procs |-> "not_called"]
    /\ size_raised = [p \in Procs |-> FALSE]
    /\ ret = [p \in Procs |-> FALSE]
    /\ scan = [p \in Procs |-> NoScan]
    /\ call = NoCall

AllIdle == \A p \in Procs : pc[p] = "idle"

\* the operation of p returns value: control is back at the caller
Return(p, value) ==
    /\ pc' = [pc EXCEPT ![p] = "done"]
    /\ ret' = [ret EXCEPT ![p] = value]

\* add_internal_database_entry(document): a document as register_archives
\* builds it (set_system_values), with a fresh uuid and its own archive path,
\* in any status
add_internal_database_entry(status, upload_uuid) ==
    /\ AllIdle
    /\ Len(store) < MaxDocs
    /\ store' = insert_file_document(store,
            [id |-> 0,
             system_uuid |-> FreshId(store),
             system_upload_uuid |-> upload_uuid,
             system_path |-> FreshId(store),
             system_result |-> result_path(FreshId(store)),
             system_size |-> EstimatedSize,
             system_size_hdf5 |-> Unset,
             system_status |-> status])
    /\ UNCHANGED <<scan, call, pc, op, limit, document_file_list, idx, before, converter,
                   size_raised, ret>>

----------------------------------------------------------------------------
\* convert_archives_to_hdf5(number_of_archives_to_convert)

\* variant: the guard never reports a conversion
conversion_in_progress_never(docs) == FALSE

\* variant: the guard looks for the wrong status
conversion_in_progress_wrong_status(docs) ==
    Len(get_file_documents_by_status(docs, CONVERTED)) > 0

\* conversion_in_progress(): some document has status Converting
conversion_in_progress(docs) ==
    Len(get_file_documents_by_status(docs, CONVERTING)) > 0

\* variant: a request for too many archives is not rejected
more_than_present_never(n, document_files) == FALSE

\* 'Request more archives than present'
more_than_present(n, document_files) == n > Len(document_files)

\* variant: the number asked for is not looked at
select_document_files_all(n, document_files) == document_files

\* the first n Validated documents, or all of them when n is negative
select_document_files(n, document_files) ==
    IF n >= 0
    THEN SubSeq(document_files, 1,
                IF n < Len(document_files) THEN n ELSE Len(document_files))
    ELSE document_files

\* variant: the call picks up the Failed documents
convertible_status_failed == FAILED

\* the status of the documents a call reads to convert them
convertible_status == VALIDATED

\* document_file.set_value('system_status', status)
set_status(document, status) == [document EXCEPT !.system_status = status]

\* variant: the loop before the converter call writes the status read
status_before_conversion_validated == VALIDATED

\* the status written before the converter is called
status_before_conversion == CONVERTING

\* variant: the success loop leaves the status as it is
status_on_success_stuck == CONVERTING

\* the status written when the converter and the size computation succeeded
status_on_success == CONVERTED

\* variant: the exception handler leaves the status as it is
status_on_exception_stuck == CONVERTING

\* the status written by the exception handler
status_on_exception == FAILED

\* the call: success = False
convert_call(p, n) ==
    /\ pc[p] = "idle"
    /\ pc' = [pc EXCEPT ![p] = "guard"]
    /\ op' = [op EXCEPT ![p] = "convert_archives_to_hdf5"]
    /\ limit' = [limit EXCEPT ![p] = n]
    /\ before' = [before EXCEPT ![p] = store]
    /\ UNCHANGED <<scan, call, store, document_file_list, idx, converter, size_raised, ret>>

\* if self.conversion_in_progress(): return success
convert_guard(p) ==
    /\ pc[p] = "guard"
    /\ IF conversion_in_progress(store)
       THEN Return(p, FALSE)
       ELSE /\ pc' = [pc EXCEPT ![p] = "select"]
            /\ UNCHANGED ret
    /\ UNCHANGED <<scan, call, store, op, limit, document_file_list, idx, before, converter,
                   size_raised>>

\* the Validated documents are read and the documents of the call selected;
\* with nothing selected the loop over them is empty and the converter is
\* called at once
convert_select(p) ==
    /\ pc[p] = "select"
    /\ LET document_files ==
                get_file_documents_by_status(store, convertible_status)
           selected == select_document_files(limit[p], document_files)
       IN  IF more_than_present(limit[p], document_files)
           THEN /\ Return(p, FALSE)
                /\ UNCHANGED <<document_file_list, converter>>
           ELSE /\ document_file_list' =
                        [document_file_list EXCEPT ![p] = selected]
                /\ pc' = [pc EXCEPT
                            ![p] = IF selected = <<>> THEN "convert" ELSE "mark"]
                /\ converter' = [converter EXCEPT
                        ![p] = IF selected = <<>> THEN "running" ELSE @]
                /\ UNCHANGED ret
    /\ idx' = [idx EXCEPT ![p] = 1]
    /\ UNCHANGED <<scan, call, store, op, limit, before, size_raised>>

\* one round of the loop that writes Converting; after the last one the
\* converter is called
convert_mark(p) ==
    /\ pc[p] = "mark"
    /\ LET i == idx[p]
           document == set_status(document_file_list[p][i],
                                  status_before_conversion)
           last == (i = Len(document_file_list[p]))
       IN  /\ document_file_list' =
                [document_file_list EXCEPT ![p][i] = document]
           /\ store' = update_file_document_by_path(
                            store, document.system_path, document)
           /\ idx' = [idx EXCEPT ![p] = IF last THEN 1 ELSE i + 1]
           /\ pc' = [pc EXCEPT ![p] = IF last THEN "convert" ELSE "mark"]
           /\ converter' = [converter EXCEPT ![p] = IF last THEN "running" ELSE @]
    /\ UNCHANGED <<scan, call, op, limit, before, size_raised, ret>>

\* variant: no handler for an exception of the converter, the call ends there
read_astec_archives_unhandled(p, raises) ==
    /\ pc[p] = "convert"
    /\ converter' = [converter EXCEPT ![p] = IF raises THEN "raised" ELSE "returned"]
    /\ IF document_file_list[p] = <<>> \/ raises
       THEN Return(p, ~raises)
       ELSE /\ pc' = [pc EXCEPT ![p] = "reconcile"]
            /\ UNCHANGED ret
    /\ UNCHANGED <<scan, call, store, op, limit, document_file_list, idx, before, size_raised>>

\* variant: an exception of the converter leaves convert_archives_to_hdf5
read_astec_archives_escapes(p, raises) ==
    /\ pc[p] = "convert"
    /\ converter' = [converter EXCEPT ![p] = IF raises THEN "raised" ELSE "returned"]
    /\ IF raises
       THEN /\ pc' = [pc EXCEPT ![p] = "raised"]
            /\ UNCHANGED ret
       ELSE IF document_file_list[p] = <<>>
            THEN Return(p, TRUE)
            ELSE /\ pc' = [pc EXCEPT ![p] = "reconcile"]
                 /\ UNCHANGED ret
    /\ UNCHANGED <<scan, call, store, op, limit, document_file_list, idx, before, size_raised>>

\* read_astec_archives(archive_path_list, result_path_list) returns, or
\* raises; control goes to the loop that writes Converted, or to the
\* exception handler
read_astec_archives(p, raises) ==
    /\ pc[p] = "convert"
    /\ converter' = [converter EXCEPT ![p] = IF raises THEN "raised" ELSE "returned"]
    /\ IF document_file_list[p] = <<>>
       THEN Return(p, ~raises)
       ELSE /\ pc' = [pc EXCEPT ![p] = IF raises THEN "fail" ELSE "reconcile"]
            /\ UNCHANGED ret
    /\ UNCHANGED <<scan, call, store, op, limit, document_file_list, idx, before, size_raised>>

\* one round of the loop that writes Converted: the status is set on the
\* copy, file_size of the result path is computed (and may raise), the copy
\* is written; after the last round success = True
convert_reconcile(p, kind, st_size) ==
    /\ pc[p] = "reconcile"
    /\ LET i == idx[p]
           converted == set_status(document_file_list[p][i], status_on_success)
           size == file_size(kind, st_size)
           document == [converted EXCEPT !.system_size_hdf5 = size.value]
           last == (i = Len(document_file_list[p]))
       IN  IF size.raised
           THEN /\ document_file_list' =
                        [document_file_list EXCEPT ![p][i] = converted]
                /\ pc' = [pc EXCEPT ![p] = "fail"]
                /\ idx' = [idx EXCEPT ![p] = 1]
                /\ size_raised' = [size_raised EXCEPT ![p] = TRUE]
                /\ UNCHANGED <<store, ret>>
           ELSE /\ document_file_list' =
                        [document_file_list EXCEPT ![p][i] = document]
                /\ store' = update_file_document_by_path(
                                store, document.system_path, document)
                /\ idx' = [idx EXCEPT ![p] = IF last THEN 1 ELSE i + 1]
                /\ IF last THEN Return(p, TRUE) ELSE UNCHANGED <<pc, ret>>
                /\ UNCHANGED size_raised
    /\ UNCHANGED <<scan, call, op, limit, before, converter>>

\* one round of the exception handler's loop, which writes Failed; after the
\* last round the call returns success, still False
convert_fail(p) ==
    /\ pc[p] = "fail"
    /\ LET i == idx[p]
           document == set_status(document_file_list[p][i], status_on_exception)
           last == (i = Len(document_file_list[p]))
       IN  /\ document_file_list' =
                [document_file_list EXCEPT ![p][i] = document]
           /\ store' = update_file_document_by_path(
                            store, document.system_path, document)
           /\ idx' = [idx EXCEPT ![p] = IF last THEN 1 ELSE i + 1]
           /\ IF last THEN Return(p, FALSE) ELSE UNCHANGED <<pc, ret>>
    /\ UNCHANGED <<scan, call, op, limit, before, converter, size_raised>>

----------------------------------------------------------------------------
\* update_archive_sizes()

\* the loop over the Uploaded documents: the first k get their size from du
\* and go to Validated; when k < Len(documents) the size of document k + 1
\* could not be read and the exception ends the loop
\* variant: the loop writes nothing
update_sizes_none(docs, documents, i, k, du) == docs

RECURSIVE update_sizes(_, _, _, _, _)
update_sizes(docs, documents, i, k, du) ==
    IF i > k THEN docs
    ELSE LET document ==
                [documents[i] EXCEPT
                    !.system_size = convert_from_bytes(du[i], TRUE),
                    !.system_status = VALIDATED]
         IN  update_sizes(
                update_file_document_by_path(docs, document.system_path, document),
                documents, i + 1, k, du)

update_archive_sizes(p) ==
    /\ pc[p] = "idle"
    /\ LET documents == get_file_documents_by_status(store, UPLOADED)
           n == Len(documents)
       IN  \E k \in 0..n : \E du \in [1..n -> FileSizes] :
              /\ store' = update_sizes(store, documents, 1, k, du)
              /\ Return(p, k = n)
    /\ op' = [op EXCEPT ![p] = "update_archive_sizes"]
    /\ before' = [before EXCEPT ![p] = store]
    /\ UNCHANGED <<scan, call, limit, document_file_list, idx, converter, size_raised>>

----------------------------------------------------------------------------
\* process_uploads()

\* What upload_info.pickle of an upload holds: it cannot be read (missing or
\* malformed), or it lists archive paths
Descriptors ==
    {[readable |-> FALSE, archive_paths |-> <<>>]} \cup
    {[readable |-> TRUE, archive_paths |-> paths] :
        paths \in {<<>>, <<"a">>, <<"a", "b">>, <<"a", "a">>}}

\* the archive paths the descriptors name
ArchiveNames == {"a", "b"}

\* names of the entries of the upload directory: the upload uuids, and a
\* name uuid.UUID() does not accept
DirectoryNames == UploadUuids \cup {"not-a-uuid"}

\* an entry of the upload directory: its name, whether it is a directory,
\* and whether it holds a file of its own name (the upload is complete),
\* which a directory alone can
DirectoryEntries ==
    {e \in [name : DirectoryNames, isdir : BOOLEAN, marker : BOOLEAN] :
        e.marker => e.isdir}

\* os.listdir(upload_directory): up to two entries, no name twice
DirectoryListings ==
    {<<>>} \cup {<<e>> : e \in DirectoryEntries}
    \cup {listing \in {<<e, f>> : e \in DirectoryEntries,
                                   f \in DirectoryEntries} :
                listing[1].name # listing[2].name}

\* the listing of an upload directory that holds both uploads, complete
CompleteListing ==
    <<[name |-> "u1", isdir |-> TRUE, marker |-> TRUE],
      [name |-> "u2", isdir |-> TRUE, marker |-> TRUE]>>

\* both uploads with a descriptor that cannot be read, both with a
\* descriptor of one archive, or both with a descriptor that lists the same
\* archive path twice
SameDescriptors ==
    {[u \in UploadUuids |-> [readable |-> FALSE, archive_paths |-> <<>>]],
     [u \in UploadUuids |-> [readable |-> TRUE, archive_paths |-> <<"a">>]],
     [u \in UploadUuids |-> [readable |-> TRUE, archive_paths |-> <<"a", "a">>]]}

\* uuid.UUID(directory) raises ValueError
ValueError(directory) == directory \notin UploadUuids

\* get_upload_uuids2(upload_directory): the names of the directories that
\* hold their marker file and parse as a uuid, in listing order; a name that
\* does not parse is logged and left out
RECURSIVE get_upload_uuids2(_)
get_upload_uuids2(listing) ==
    IF listing = <<>> THEN <<>>
    ELSE LET directory == Head(listing)
         IN  (IF directory.isdir /\ directory.marker
                    /\ ~ValueError(directory.name)
              THEN <<directory.name>>
              ELSE <<>>)
             \o get_upload_uuids2(Tail(listing))

\* read_upload_info(upload_uuid): one archive per path of the descriptor
read_upload_info(upload_uuid, archive_paths) ==
    [i \in 1..Len(archive_paths) |->
        [upload_uuid |-> upload_uuid,
         archive_path |-> <<upload_uuid, archive_paths[i]>>,
         result_path |-> result_path(<<upload_uuid, archive_paths[i]>>)]]

\* get_uploaded_archives_to_process(): upload by upload, an upload without a
\* document is detected as new and its descriptor is read; a descriptor that
\* cannot be read raises out of the loop.  detected are the uploads the loop
\* found new before it ended, archives what it had collected.
RECURSIVE archives_to_process(_, _, _)
archives_to_process(docs, uploads, descriptor) ==
    IF uploads = <<>>
    THEN [raised |-> FALSE, detected |-> <<>>, archives |-> <<>>]
    ELSE LET upload_uuid == Head(uploads)
             rest == archives_to_process(docs, Tail(uploads), descriptor)
         IN  IF ~NoDocumentForUpload(docs, upload_uuid) THEN rest
             ELSE IF ~descriptor[upload_uuid].readable
                  THEN [raised |-> TRUE, detected |-> <<upload_uuid>>,
                        archives |-> <<>>]
                  ELSE [raised |-> rest.raised,
                        detected |-> <<upload_uuid>> \o rest.detected,
                        archives |->
                            read_upload_info(upload_uuid,
                                descriptor[upload_uuid].archive_paths)
                            \o rest.archives]

\* the numbers of saving times the converter adapter reports for an archive
SavingCounts == {0, 1, 5}

\* the converter adapter raises when it reads the saving times of an archive
ProbeRaised == 0 - 1

\* what reading the saving times of an archive comes to
ProbeOutcomes == SavingCounts \cup {ProbeRaised}

\* astec_handler.get_lists_of_saving_times(archive_path_list): for each
\* archive the number of its saving times; the call raises when the saving
\* times of one of the archives cannot be read
get_lists_of_saving_times(archive_list, saving) ==
    LET probes ==
            [i \in 1..Len(archive_list) |->
                saving[archive_list[i].archive_path[2]]]
    IN  [raised |-> \E i \in 1..Len(archive_list) : probes[i] = ProbeRaised,
         probes |-> probes]

\* the attributes of the class AssasDocumentFileStatus
AssasDocumentFileStatus ==
    [UPLOADED |-> UPLOADED, INVALID |-> INVALID, VALIDATING |-> VALIDATING,
     VALIDATED |-> VALIDATED, CONVERTING |-> CONVERTING,
     CONVERTED |-> CONVERTED, FAILED |-> FAILED]

\* the system_status register_archives chooses for an archive: the attribute
\* CORRUPTED for exactly one saving time, UPLOADED otherwise; an attribute
\* the class does not have is an AttributeError
registration_status(number_of_saving_times) ==
    IF number_of_saving_times = 1
    THEN IF "CORRUPTED" \in DOMAIN AssasDocumentFileStatus
         THEN [error |-> "none",
               system_status |-> AssasDocumentFileStatus.CORRUPTED]
         ELSE [error |-> "AttributeError", system_status |-> ""]
    ELSE [error |-> "none",
          system_status |-> AssasDocumentFileStatus.UPLOADED]

\* the parameters of AssasDocumentFile.set_meta_data_values
set_meta_data_values_parameters == {"meta_data_variables"}

\* the keywords register_archives calls set_meta_data_values with
set_meta_data_values_keywords ==
    {"meta_data_variables", "meta_data_channels", "meta_data_meshes",
     "meta_data_samples"}

\* a call with a keyword the function does not take, or without one it
\* needs, is a TypeError
TypeError(parameters, keywords) == keywords # parameters

\* the keys of the document when write_meta_data_to_hdf5 is called: those of
\* set_system_values, set_general_meta_values and set_meta_data_values
document_keys ==
    {"system_uuid", "system_upload_uuid", "system_date", "system_path",
     "system_result", "system_size", "system_user", "system_download",
     "system_status", "meta_name", "meta_description"}
    \cup set_meta_data_values_parameters

\* the keys write_meta_data_to_hdf5 reads with get_value
write_meta_data_to_hdf5_keys ==
    {"system_result", "system_uuid", "meta_name", "meta_group", "meta_date",
     "meta_creator", "meta_description", "meta_data_variables",
     "meta_data_channels", "meta_data_meshes", "meta_data_samples"}

\* get_value of a key the document does not have is a KeyError
KeyError(keys, document) == ~(keys \subseteq document)

\* the loop of register_archives from archive i on: the first exception
\* ends it, and a document is inserted only at the end of a turn
RECURSIVE register_loop(_, _, _, _)
register_loop(docs, archive_list, lists_of_saving_time, i) ==
    IF i > Len(archive_list) THEN [error |-> "none", store |-> docs]
    ELSE LET archive == archive_list[i]
             status == registration_status(lists_of_saving_time[i])
             size_hdf5 == file_size("file", CHOOSE s \in FileSizes : TRUE)
         IN  IF status.error # "none"
             THEN [error |-> status.error, store |-> docs]
             ELSE IF TypeError(set_meta_data_values_parameters,
                               set_meta_data_values_keywords)
             THEN [error |-> "TypeError", store |-> docs]
             ELSE IF KeyError(write_meta_data_to_hdf5_keys, document_keys)
             THEN [error |-> "KeyError", store |-> docs]
             ELSE register_loop(
                    insert_file_document(docs,
                        [id |-> 0,
                         system_uuid |-> FreshId(docs),
                         system_upload_uuid |-> archive.upload_uuid,
                         system_path |-> archive.archive_path,
                         system_result |-> archive.result_path,
                         system_size |-> EstimatedSize,
                         system_size_hdf5 |-> size_hdf5.value,
                         system_status |-> status.system_status]),
                    archive_list, lists_of_saving_time, i + 1)

\* register_archives(archive_list)
register_archives(docs, archive_list, lists_of_saving_time) ==
    register_loop(docs, archive_list, lists_of_saving_time, 1)

\* process_uploads(): an exception of read_upload_info (a descriptor that
\* cannot be read) or of register_archives ends the call with success False;
\* register_archives is called when the scan returned archives, and reads
\* the saving times of all of them before its loop
process_uploads(p, listing, descriptor, saving) ==
    /\ pc[p] = "idle"
    /\ LET found == archives_to_process(store, get_upload_uuids2(listing),
                                        descriptor)
           archive_list == IF found.raised THEN <<>> ELSE found.archives
           read == get_lists_of_saving_times(archive_list, saving)
           lists_of_saving_time == IF read.raised THEN <<>> ELSE read.probes
           registered ==
               IF archive_list = <<>> THEN [error |-> "none", store |-> store]
               ELSE IF read.raised
                    THEN [error |-> "get_lists_of_saving_times",
                          store |-> store]
                    ELSE register_archives(store, archive_list,
                                           lists_of_saving_time)
           error == IF found.raised THEN "read_upload_info"
                    ELSE registered.error
       IN  /\ store' = registered.store
           /\ scan' = [scan EXCEPT ![p] =
                    [listing |-> listing,
                     descriptor |-> descriptor,
                     probes |-> read.probes,
                     lists_of_saving_time |-> lists_of_saving_time,
                     detected |-> found.detected,
                     archive_list |-> archive_list,
                     error |-> error]]
           /\ Return(p, error = "none")
    /\ op' = [op EXCEPT ![p] = "process_uploads"]
    /\ before' = [before EXCEPT ![p] = store]
    /\ UNCHANGED <<call, limit, document_file_list, idx, converter,
                   size_raised>>

----------------------------------------------------------------------------
\* Calls of the handler and of the helper functions on their own.  A helper
\* function is called once, on any argument.

\* insert_file_document(file) with a document of upload upload_uuid
handler_insert_file_document(status, upload_uuid) ==
    /\ AllIdle
    /\ Len(store) < MaxDocs
    /\ store' = insert_file_document(store,
            [id |-> 0,
             system_uuid |-> FreshId(store),
             system_upload_uuid |-> upload_uuid,
             system_path |-> FreshId(store),
             system_result |-> result_path(FreshId(store)),
             system_size |-> EstimatedSize,
             system_size_hdf5 |-> Unset,
             system_status |-> status])
    /\ call' = [fn |-> "insert_file_document", upload_uuid |-> upload_uuid,
                matched |-> Len(store) -
                    Len(SelectSeq(store,
                        LAMBDA d : d.system_upload_uuid # upload_uuid))]
    /\ UNCHANGED <<pc, op, limit, document_file_list, idx, before, converter,
                   size_raised, ret, scan>>

\* delete_file_document_by_upload_uuid(upload_uuid); matched is the number of
\* documents of that upload before the call
handler_delete_file_document_by_upload_uuid(upload_uuid) ==
    /\ AllIdle
    /\ store' = delete_file_document_by_upload_uuid(store, upload_uuid)
    /\ call' = [fn |-> "delete_file_document_by_upload_uuid",
                upload_uuid |-> upload_uuid,
                matched |-> Len(store) -
                    Len(SelectSeq(store,
                        LAMBDA d : d.system_upload_uuid # upload_uuid))]
    /\ UNCHANGED <<pc, op, limit, document_file_list, idx, before, converter,
                   size_raised, ret, scan>>

\* convert_from_bytes(num) for num = mantissa * 1024^exponent
convert_from_bytes_call(mantissa, exponent, isfloat) ==
    /\ call = NoCall
    /\ call' = [fn |-> "convert_from_bytes", mantissa |-> mantissa,
                exponent |-> exponent, isfloat |-> isfloat,
                value |-> convert_from_scaled_bytes(mantissa, exponent,
                                                    isfloat)]
    /\ UNCHANGED <<store, pc, op, limit, document_file_list, idx, before,
                   converter, size_raised, ret, scan>>

\* file_size(file_path) for a path of that kind, st_size bytes if a file
file_size_call(kind, st_size) ==
    /\ call = NoCall
    /\ call' = [fn |-> "file_size", kind |-> kind, st_size |-> st_size,
                raised |-> file_size(kind, st_size).raised,
                value |-> file_size(kind, st_size).value]
    /\ UNCHANGED <<store, pc, op, limit, document_file_list, idx, before,
                   converter, size_raised, ret, scan>>

----------------------------------------------------------------------------
\* the caller has the return value; the locals of the call are gone
return(p) ==
    /\ pc[p] = "done"
    /\ pc' = [pc EXCEPT ![p] = "idle"]
    /\ op' = [op EXCEPT ![p] = "none"]
    /\ limit' = [limit EXCEPT ![p] = 0 - 1]
    /\ document_file_list' = [document_file_list EXCEPT ![p] = <<>>]
    /\ idx' = [idx EXCEPT ![p] = 1]
    /\ before' = [before EXCEPT ![p] = <<>>]
    /\ converter' = [converter EXCEPT ![p] = "not_called"]
    /\ size_raised' = [size_raised EXCEPT ![p] = FALSE]
    /\ ret' = [ret EXCEPT ![p] = FALSE]
    /\ scan' = [scan EXCEPT ![p] = NoScan]
    /\ UNCHANGED <<store, call>>

\* the process of p ends in the middle of a conversion (it is killed, the
\* machine stops): the locals of the call are gone, no handler runs, and
\* the store is as the last write left it.  converter keeps "crashed" until
\* the next call of p has returned.
crash(p) ==
    /\ pc[p] \in {"mark", "convert", "reconcile", "fail"}
    /\ pc' = [pc EXCEPT ![p] = "idle"]
    /\ op' = [op EXCEPT ![p] = "none"]
    /\ limit' = [limit EXCEPT ![p] = 0 - 1]
    /\ document_file_list' = [document_file_list EXCEPT ![p] = <<>>]
    /\ idx' = [idx EXCEPT ![p] = 1]
    /\ before' = [before EXCEPT ![p] = <<>>]
    /\ converter' = [converter EXCEPT ![p] = "crashed"]
    /\ size_raised' = [size_raised EXCEPT ![p] = FALSE]
    /\ ret' = [ret EXCEPT ![p] = FALSE]
    /\ UNCHANGED <<store, scan, call>>

\* the steps of process p
Step(p) ==
    \/ \E n \in Limits : convert_call(p, n)
    \/ convert_guard(p)
    \/ convert_select(p)
    \/ convert_mark(p)
    \/ \E raises \in BOOLEAN : read_astec_archives(p, raises)
    \/ \E kind \in PathKinds : \E st_size \in FileSizes :
            convert_reconcile(p, kind, st_size)
    \/ convert_fail(p)
    \/ update_archive_sizes(p)
    \/ \E descriptor \in SameDescriptors :
            process_uploads(p, CompleteListing, descriptor,
                            [name \in ArchiveNames |-> 5])
    \/ return(p)

Seed ==
    \E status \in AllStatuses : \E upload_uuid \in UploadUuids :
        add_internal_database_entry(status, upload_uuid)

\* One orchestrator process: its operations run to completion one after
\* another.
Next == Seed \/ Step(1)

Spec == Init /\ [][Next]_vars

\* One orchestrator process that can crash in the middle of a conversion and
\* is started again.
NextCrash == Seed \/ Step(1) \/ crash(1)

SpecCrash == Init /\ [][NextCrash]_vars

\* The upload side alone: a store of documents of earlier uploads, and
\* process_uploads over every listing of the upload directory, every
\* descriptor and every number of saving times.
SeedUpload ==
    \E upload_uuid \in UploadUuids :
        add_internal_database_entry(UPLOADED, upload_uuid)

NextUpload ==
    \/ SeedUpload
    \/ \E listing \in DirectoryListings :
       \E descriptor \in [UploadUuids -> Descriptors] :
       \E saving \in [ArchiveNames -> ProbeOutcomes] :
            process_uploads(1, listing, descriptor, saving)
    \/ return(1)

SpecUpload == Init /\ [][NextUpload]_vars

\* The handler alone: documents are inserted and deleted by upload uuid.
NextHandler ==
    \/ \E status \in AllStatuses : \E upload_uuid \in UploadUuids :
            handler_insert_file_document(status, upload_uuid)
    \/ \E upload_uuid \in UploadUuids :
            handler_delete_file_document_by_upload_uuid(upload_uuid)

SpecHandler == Init /\ [][NextHandler]_vars

\* The size helpers alone, over byte counts up to MaxMantissa * 1024^MaxExponent.
NextSize ==
    \/ \E mantissa \in 0..MaxMantissa : \E exponent \in 0..MaxExponent :
       \E isfloat \in BOOLEAN :
            convert_from_bytes_call(mantissa, exponent, isfloat)
    \/ \E kind \in PathKinds : \E st_size \in 0..MaxMantissa :
            file_size_call(kind, st_size)

SpecSize == Init /\ [][NextSize]_vars

\* Two orchestrator processes on the same store, each converting all the
\* Validated documents again and again.
StepRace(p) ==
    \/ convert_call(p, 0 - 1)
    \/ convert_guard(p)
    \/ convert_select(p)
    \/ convert_mark(p)
    \/ \E raises \in BOOLEAN : read_astec_archives(p, raises)
    \/ \E st_size \in FileSizes : convert_reconcile(p, "file", st_size)
    \/ convert_fail(p)
    \/ return(p)

SeedRace == add_internal_database_entry(VALIDATED, "u1")

NextRace == SeedRace \/ \E p \in Procs : StepRace(p)

SpecRace == Init /\ [][NextRace]_vars

\* One orchestrator process that does not crash, on documents registered as
\* Uploaded: update_archive_sizes and convert_archives_to_hdf5(-1) are called
\* again and again, and a call that has begun runs to its return, since the
\* size probes, the store and the converter return or raise.
StepLive(p) ==
    \/ update_archive_sizes(p)
    \/ convert_call(p, 0 - 1)
    \/ convert_guard(p)
    \/ convert_select(p)
    \/ convert_mark(p)
    \/ \E raises \in BOOLEAN : read_astec_archives(p, raises)
    \/ \E kind \in PathKinds : \E st_size \in FileSizes :
            convert_reconcile(p, kind, st_size)
    \/ convert_fail(p)
    \/ return(p)

NextLive == SeedUpload \/ StepLive(1)

\* the two operations are called again and again; every step of a call that
\* has begun is taken
FairLive ==
    /\ SF_vars(update_archive_sizes(1))
    /\ SF_vars(convert_call(1, 0 - 1))
    /\ WF_vars(convert_guard(1))
    /\ WF_vars(convert_select(1))
    /\ WF_vars(convert_mark(1))
    /\ WF_vars(\E raises \in BOOLEAN : read_astec_archives(1, raises))
    /\ WF_vars(\E kind \in PathKinds : \E st_size \in FileSizes :
                    convert_reconcile(1, kind, st_size))
    /\ WF_vars(convert_fail(1))
    /\ WF_vars(return(1))

SpecLive == Init /\ [][NextLive]_vars /\ FairLive

----------------------------------------------------------------------------
\* Properties of convert_archives_to_hdf5.

\* p has returned from convert_archives_to_hdf5
ConvertReturned(p) == pc[p] = "done" /\ op[p] = "convert_archives_to_hdf5"

HasStatus(docs, status) ==
    \E i \in 1..Len(docs) : docs[i].system_status = status

CountStatus(docs, status) ==
    Cardinality({i \in 1..Len(docs) : docs[i].system_status = status})

\* document is one the call of p selected
Selected(p, document) ==
    \E j \in 1..Len(document_file_list[p]) :
        document_file_list[p][j].system_path = document.system_path

\* every document the call of p selected is in the store with one of statuses
SelectedAllIn(p, statuses) ==
    \A j \in 1..Len(document_file_list[p]) :
        \E i \in 1..Len(store) :
            /\ store[i].system_path = document_file_list[p][j].system_path
            /\ store[i].system_status \in statuses

\* the call of p left the store as it was
StoreUntouched(p) == store = before[p]

\* C1: a call made while some document is Converting returns False, does
\* not call the converter and leaves the store as it was.
C1_RejectedWhileConverting ==
    \A p \in Procs :
        (ConvertReturned(p) /\ HasStatus(before[p], CONVERTING))
            => (ret[p] = FALSE /\ converter[p] = "not_called" /\ StoreUntouched(p))

\* a call was rejected although a Validated document was there to convert
C1_Witness ==
    /\ ConvertReturned(1)
    /\ HasStatus(before[1], CONVERTING)
    /\ HasStatus(before[1], VALIDATED)
    /\ limit[1] = 1

\* C2: a call asking for more archives than there are Validated documents
\* returns False, does not call the converter and leaves the store as it was.
C2_RejectedOverRequest ==
    \A p \in Procs :
        (ConvertReturned(p) /\ limit[p] > CountStatus(before[p], VALIDATED))
            => (ret[p] = FALSE /\ converter[p] = "not_called" /\ StoreUntouched(p))

\* the over-request alone rejected the call: nothing was Converting, and
\* there was a Validated document
C2_Witness ==
    /\ ConvertReturned(1)
    /\ ~HasStatus(before[1], CONVERTING)
    /\ CountStatus(before[1], VALIDATED) >= 1
    /\ limit[1] > CountStatus(before[1], VALIDATED)

\* C3: when the converter raised, the call ends with every selected document
\* Failed and every other document as it was before the call.
C3_ConverterRaised ==
    \A p \in Procs :
        (ConvertReturned(p) /\ converter[p] = "raised")
            => /\ SelectedAllIn(p, {FAILED})
               /\ Len(store) = Len(before[p])
               /\ \A i \in 1..Len(store) :
                    IF Selected(p, store[i])
                    THEN store[i].system_status = FAILED
                    ELSE store[i] = before[p][i]

\* the converter raised on a call that selected some documents and not others
C3_Witness ==
    /\ ConvertReturned(1)
    /\ converter[1] = "raised"
    /\ Len(document_file_list[1]) >= 1
    /\ Len(store) > Len(document_file_list[1])

\* the values file_size returns
SizeValues ==
    {file_size(kind, st_size).value :
        kind \in PathKinds \ {"dir"}, st_size \in FileSizes}

\* the call of p succeeded: it returned True and every document it selected
\* is Converted and carries what file_size returned for its result path
ConvertedAll(p) ==
    /\ ret[p] = TRUE
    /\ SelectedAllIn(p, {CONVERTED})
    /\ \A i \in 1..Len(store) :
            Selected(p, store[i]) => store[i].system_size_hdf5 \in SizeValues

C5_NotLeftConverting ==
    \A p \in Procs :
        ConvertReturned(p)
            => /\ SelectedAllIn(p, {CONVERTED, FAILED})
               /\ \A i \in 1..Len(store) :
                    Selected(p, store[i]) => store[i].system_status # CONVERTING

\* a call that selected documents returned after the converter returned
\* and a size could not be computed
C5_Witness ==
    /\ ConvertReturned(1)
    /\ Len(document_file_list[1]) >= 1
    /\ converter[1] = "returned"
    /\ size_raised[1]

\* C6: a step sets a document to Converting only from Validated.
C6_ConvertingOnlyFromValidated ==
    [][\A i \in 1..Len(store) :
            (store[i].system_status # CONVERTING
                /\ store'[i].system_status = CONVERTING)
                => store[i].system_status = VALIDATED]_vars

\* the converter runs on selected documents while a Failed document, left by
\* an earlier call or written as such, stays Failed
C6_Witness ==
    /\ pc[1] = "convert"
    /\ Len(document_file_list[1]) >= 1
    /\ HasStatus(store, FAILED)
    /\ HasStatus(store, CONVERTING)

\* the place of a status in
\* Uploaded -> Validating -> {Validated | Invalid | Corrupted} -> Converting
\*          -> {Converted | Failed}
StatusStage(status) ==
    CASE status = UPLOADED -> 0
      [] status = VALIDATING -> 1
      [] status \in {VALIDATED, INVALID, CORRUPTED_STRING} -> 2
      [] status = CONVERTING -> 3
      [] status \in {CONVERTED, FAILED} -> 4

\* C7: every change of a document's status goes to a later stage of the
\* status chain.
C7_StatusMovesForward ==
    [][\A i \in 1..Len(store) :
            store'[i].system_status # store[i].system_status
                => StatusStage(store'[i].system_status)
                        > StatusStage(store[i].system_status)]_vars

\* C8: the status of a document that is Corrupted, Converted or Invalid does
\* not change again.
C8_TerminalStatuses ==
    [][\A i \in 1..Len(store) :
            store[i].system_status \in {CORRUPTED_STRING, CONVERTED, INVALID}
                => store'[i].system_status = store[i].system_status]_vars

\* C9: with one orchestrator process, while the converter runs every
\* Converting document is one the running call selected: none was left
\* Converting by an earlier call.
C9_SingleFlight ==
    \A p \in Procs :
        pc[p] = "convert"
            => /\ \A i \in 1..Len(store) :
                    store[i].system_status = CONVERTING => Selected(p, store[i])
               /\ \A q \in Procs \ {p} : pc[q] # "convert"

\* the converter runs on some documents of a store that holds others too
C9_Witness ==
    /\ pc[1] = "convert"
    /\ converter[1] = "running"
    /\ Len(document_file_list[1]) >= 1
    /\ Len(store) > Len(document_file_list[1])

\* C10: the guard is a read of the store and no lock: a process passes it
\* exactly when the store shows no Converting document at that moment, and
\* passing it writes nothing; so two processes can both pass it and run the
\* converter at the same time on the same documents (C10_Witness).
C10_GuardIsCheckThenAct ==
    [][\A p \in Procs :
            (pc[p] = "guard" /\ pc'[p] # "guard")
                => /\ store' = store
                   /\ (pc'[p] = "select") <=> ~HasStatus(store, CONVERTING)]_vars

\* both processes are in the converter at once, with a document in common
C10_Witness ==
    /\ pc[1] = "convert"
    /\ pc[2] = "convert"
    /\ \E j \in 1..Len(document_file_list[1]) :
            Selected(2, document_file_list[1][j])

----------------------------------------------------------------------------
\* Uploads.

\* process_uploads of p has returned
UploadsProcessed(p) == pc[p] = "done" /\ op[p] = "process_uploads"

\* the listing shows upload_uuid as a directory that holds its marker file
CompleteIn(listing, upload_uuid) ==
    \E i \in 1..Len(listing) :
        /\ listing[i].name = upload_uuid
        /\ listing[i].isdir
        /\ listing[i].marker

\* some document of docs carries upload_uuid
KnownIn(docs, upload_uuid) ==
    \E j \in 1..Len(docs) : docs[j].system_upload_uuid = upload_uuid

\* upload_uuid occurs in the sequence of upload uuids
OccursIn(upload_uuids, upload_uuid) ==
    \E i \in 1..Len(upload_uuids) : upload_uuids[i] = upload_uuid

\* C11: the status register_archives chooses for an archive is Corrupted when
\* the adapter reports at most one saving time for it (0 or 1), and Uploaded
\* when it reports more than one.
C11_StatusBySavingTimes ==
    \A p \in Procs :
        UploadsProcessed(p) =>
            \A i \in 1..Len(scan[p].lists_of_saving_time) :
                LET number == scan[p].lists_of_saving_time[i]
                    chosen == registration_status(number)
                IN  /\ chosen.error = "none"
                    /\ chosen.system_status =
                        IF number <= 1 THEN CORRUPTED_STRING ELSE UPLOADED

\* C12: after process_uploads handed the archives of a new upload to
\* register_archives, the store holds a document for each archive path of
\* the descriptor, as many documents of the upload as the descriptor has
\* paths, each with the upload uuid.
C12_OneDocumentPerArchivePath ==
    \A p \in Procs :
        UploadsProcessed(p) =>
            \A i \in 1..Len(scan[p].archive_list) :
                LET archive == scan[p].archive_list[i]
                    upload_uuid == archive.upload_uuid
                    documents ==
                        {j \in 1..Len(store) :
                            store[j].system_upload_uuid = upload_uuid}
                IN  /\ \E j \in documents :
                            store[j].system_path = archive.archive_path
                    /\ Cardinality(documents) =
                        Len(scan[p].descriptor[upload_uuid].archive_paths)

\* C13: an upload that has a document is not discovered again: a later
\* process_uploads detects it as new no more, returns no archive of it, and
\* leaves the documents of the upload as they were.
C13_DiscoveryIdempotent ==
    \A p \in Procs :
        UploadsProcessed(p) =>
            \A upload_uuid \in UploadUuids :
                KnownIn(before[p], upload_uuid) =>
                    /\ ~OccursIn(scan[p].detected, upload_uuid)
                    /\ \A i \in 1..Len(scan[p].archive_list) :
                            scan[p].archive_list[i].upload_uuid # upload_uuid
                    /\ \A j \in 1..Len(store) :
                            store[j].system_upload_uuid = upload_uuid
                                => /\ j <= Len(before[p])
                                   /\ store[j] = before[p][j]
                    /\ \A j \in 1..Len(before[p]) :
                            before[p][j].system_upload_uuid = upload_uuid
                                => /\ j <= Len(store)
                                   /\ store[j] = before[p][j]

\* process_uploads ran over a listing that shows, complete, an upload that
\* has a document already and whose descriptor lists archives
C13_Witness ==
    /\ UploadsProcessed(1)
    /\ \E upload_uuid \in UploadUuids :
            /\ KnownIn(before[1], upload_uuid)
            /\ CompleteIn(scan[1].listing, upload_uuid)
            /\ scan[1].descriptor[upload_uuid].readable
            /\ scan[1].descriptor[upload_uuid].archive_paths # <<>>

\* C14: a descriptor that cannot be read stops the registration of its own
\* upload alone: no document is written for that upload, and the archives of
\* every other new upload of the same call, whose descriptor can be read,
\* are still handed to register_archives.
C14_OtherUploadsStillRegistered ==
    \A p \in Procs :
        UploadsProcessed(p) =>
            \A upload_uuid \in UploadUuids :
                (/\ CompleteIn(scan[p].listing, upload_uuid)
                 /\ ~KnownIn(before[p], upload_uuid))
                    => IF scan[p].descriptor[upload_uuid].readable
                       THEN \A k \in 1..Len(scan[p].descriptor[upload_uuid]
                                                .archive_paths) :
                              \E i \in 1..Len(scan[p].archive_list) :
                                scan[p].archive_list[i].archive_path =
                                    <<upload_uuid,
                                      scan[p].descriptor[upload_uuid]
                                            .archive_paths[k]>>
                       ELSE ~KnownIn(store, upload_uuid)

----------------------------------------------------------------------------
\* Documents are kept.

\* C15: no step of process_uploads, update_archive_sizes or
\* convert_archives_to_hdf5 removes a document: every document of the store
\* is in the store after the step, and the store is no shorter.
C15_NoDocumentRemoved ==
    [][/\ Len(store') >= Len(store)
       /\ \A i \in 1..Len(store) :
            \E j \in 1..Len(store') : store'[j].id = store[i].id]_vars

\* an operation that wrote to a store of several documents has returned
C15_Witness ==
    /\ pc[1] = "done"
    /\ op[1] \in {"update_archive_sizes", "convert_archives_to_hdf5"}
    /\ Len(store) >= 2
    /\ store # before[1]

\* C16: no exception leaves convert_archives_to_hdf5: once the converter
\* raised, control is in the exception handler or the call has returned,
\* and the value returned then is False, with the selected documents Failed.
C16_NoExceptionLeavesConversion ==
    \A p \in Procs :
        /\ pc[p] # "raised"
        /\ (op[p] = "convert_archives_to_hdf5" /\ converter[p] = "raised")
            => /\ pc[p] \in {"fail", "done"}
               /\ pc[p] = "done" =>
                    /\ ret[p] = FALSE
                    /\ \A i \in 1..Len(document_file_list[p]) :
                         \E j \in 1..Len(store) :
                            /\ store[j].system_path =
                                document_file_list[p][i].system_path
                            /\ store[j].system_status = FAILED

\* the converter raised on selected documents and the call has returned
C16_Witness ==
    /\ ConvertReturned(1)
    /\ converter[1] = "raised"
    /\ document_file_list[1] # <<>>
    /\ ret[1] = FALSE

\* C17: the uploads process_uploads detects as new are exactly those the
\* listing shows as a directory with its marker file, whose name is a valid
\* uuid, and that have no document; a name that is no uuid fails nothing,
\* and a call that registers nothing writes nothing.
C17_ScanDetectsNewCompleteUploads ==
    \A p \in Procs :
        UploadsProcessed(p) =>
            /\ \A name \in DirectoryNames :
                    OccursIn(scan[p].detected, name)
                        <=> /\ name \in UploadUuids
                            /\ CompleteIn(scan[p].listing, name)
                            /\ ~KnownIn(before[p], name)
            /\ scan[p].archive_list = <<>> => store = before[p]

----------------------------------------------------------------------------
\* The handler.

\* the number of documents of docs that carry upload_uuid
CountUpload(docs, upload_uuid) ==
    Cardinality({j \in 1..Len(docs) :
                    docs[j].system_upload_uuid = upload_uuid})

\* C18: after delete_file_document_by_upload_uuid(u), whatever the store
\* held, get_file_document_by_upload_uuid(u) finds no document; after an
\* insert of a document of upload u it finds a document of upload u.
C18_DeletedThenNotFound ==
    /\ call.fn = "delete_file_document_by_upload_uuid"
        => get_file_document_by_upload_uuid(store, call.upload_uuid) = <<>>
    /\ call.fn = "insert_file_document"
        => /\ get_file_document_by_upload_uuid(store, call.upload_uuid) # <<>>
           /\ get_file_document_by_upload_uuid(store, call.upload_uuid)[1]
                .system_upload_uuid = call.upload_uuid

\* C18 as the code has it: the delete removes one document of upload u, so
\* none is found after it when at most one document carried u before; after
\* an insert of a document of upload u a document of upload u is found.
C18_DeleteRemovesOne ==
    /\ call.fn = "delete_file_document_by_upload_uuid"
        => /\ call.matched <= 1
                => get_file_document_by_upload_uuid(store, call.upload_uuid)
                    = <<>>
           /\ call.matched >= 1
                => CountUpload(store, call.upload_uuid) = call.matched - 1
    /\ call.fn = "insert_file_document"
        => /\ get_file_document_by_upload_uuid(store, call.upload_uuid) # <<>>
           /\ get_file_document_by_upload_uuid(store, call.upload_uuid)[1]
                .system_upload_uuid = call.upload_uuid

\* the one document of an upload was deleted, another upload's was kept
C18_Witness ==
    /\ call.fn = "delete_file_document_by_upload_uuid"
    /\ call.matched = 1
    /\ store # <<>>

----------------------------------------------------------------------------
\* Sizes.

\* the first unit at which mantissa * 1024^exponent is below 1024, as an
\* index into B, KB, MB, GB, TB, ... (mantissa is below 1024 * 1024)
FirstUnit(mantissa, exponent) ==
    IF mantissa = 0 THEN 1
    ELSE IF mantissa < 1024 THEN exponent + 1 ELSE exponent + 2

\* hundredths is magnitude mantissa / 1024^(unit - 1 - exponent) rounded to two
\* decimals
RoundedTo(hundredths, mantissa, exponent, unit) ==
    IF mantissa = 0 \/ unit = exponent + 1
    THEN hundredths = 100 * mantissa
    ELSE LET diff == 1024 * hundredths - 100 * mantissa
         IN  2 * diff <= 1024 /\ 2 * diff >= 0 - 1024

\* C19: convert_from_bytes returns, for every byte count, the count divided
\* by 1024 until it is below 1024, rounded to two decimals, with the unit of
\* B, KB, MB, GB, TB reached; 1536.0 gives 1.5 KB, 1073741824.0 gives 1.0 GB
\* and 512.0 gives 512.0 B.
C19_HumanReadable ==
    call.fn = "convert_from_bytes" =>
        LET unit == FirstUnit(call.mantissa, call.exponent)
        IN  /\ unit <= Len(Units)
            /\ call.value.unit = Units[unit]
            /\ RoundedTo(call.value.hundredths, call.mantissa, call.exponent,
                         unit)
            /\ (call.mantissa = 1536 /\ call.exponent = 0 /\ call.isfloat)
                => call.value = [hundredths |-> 150, unit |-> "KB",
                                 float |-> TRUE]
            /\ (call.mantissa = 1 /\ call.exponent = 3 /\ call.isfloat)
                => call.value = [hundredths |-> 100, unit |-> "GB",
                                 float |-> TRUE]
            /\ (call.mantissa = 512 /\ call.exponent = 0 /\ call.isfloat)
                => call.value = [hundredths |-> 51200, unit |-> "B",
                                 float |-> TRUE]

\* C20: file_size of a directory raises and returns no size; file_size of a
\* regular file raises nothing and returns its size with a unit.
C20_FileSizeOfDirectoryRaises ==
    call.fn = "file_size" =>
        /\ call.kind = "dir" => call.raised
        /\ call.kind = "file" =>
            /\ ~call.raised
            /\ call.value.unit =
                Units[FirstUnit(call.st_size, 0)]
            /\ RoundedTo(call.value.hundredths, call.st_size, 0,
                         FirstUnit(call.st_size, 0))

\* file_size was called on a directory
C20_Witness ==
    /\ call.fn = "file_size"
    /\ call.kind = "dir"
    /\ call.raised

----------------------------------------------------------------------------
\* Conversion, phase by phase.

\* the call of p is past its guards: it has selected its documents
PastGuards(p) ==
    /\ op[p] = "convert_archives_to_hdf5"
    /\ \/ pc[p] \in {"mark", "convert", "reconcile", "fail"}
       \/ pc[p] = "done" /\ converter[p] # "not_called"

\* C21: while the converter is running, every document the call selected is
\* Converting in the store, and none of them is Validated.
C21_ConvertingBeforeConverter ==
    \A p \in Procs :
        (pc[p] = "convert" /\ converter[p] = "running")
            => /\ SelectedAllIn(p, {CONVERTING})
               /\ \A i \in 1..Len(store) :
                    Selected(p, store[i]) =>
                        store[i].system_status = CONVERTING

\* the converter runs on several selected documents
C21_Witness ==
    /\ pc[1] = "convert"
    /\ converter[1] = "running"
    /\ Len(document_file_list[1]) >= 2

\* C23: when a call that passed its guards returns, the documents it
\* selected are all Converted or all Failed.
C23_AllConvertedOrAllFailed ==
    \A p \in Procs :
        (ConvertReturned(p) /\ PastGuards(p))
            => \/ \A i \in 1..Len(store) :
                    Selected(p, store[i]) =>
                        store[i].system_status = CONVERTED
               \/ \A i \in 1..Len(store) :
                    Selected(p, store[i]) =>
                        store[i].system_status = FAILED

\* a call on several documents returned after a size could not be computed
C23_Witness ==
    /\ ConvertReturned(1)
    /\ size_raised[1]
    /\ Len(document_file_list[1]) >= 2

\* the Validated documents of docs, in store order
ValidatedIn(docs) ==
    SelectSeq(docs, LAMBDA d : d.system_status = VALIDATED)

\* the number of documents a call with that limit is to select
NumberToSelect(n, docs) ==
    IF n < 0 THEN Len(ValidatedIn(docs)) ELSE n

\* C24: a call past its guards has selected the first limit Validated
\* documents in store order, all of them when the limit is negative, and the
\* Validated documents after those are still Validated.
C24_FirstLimitValidated ==
    \A p \in Procs :
        PastGuards(p) =>
            LET candidates == ValidatedIn(before[p])
                number == NumberToSelect(limit[p], before[p])
            IN  /\ number <= Len(candidates)
                /\ Len(document_file_list[p]) = number
                /\ \A i \in 1..number :
                        document_file_list[p][i].system_path =
                            candidates[i].system_path
                /\ \A i \in (number + 1)..Len(candidates) :
                        \E j \in 1..Len(store) :
                            /\ store[j].system_path = candidates[i].system_path
                            /\ store[j].system_status = VALIDATED

\* a call selected one of two Validated documents
C24_Witness ==
    /\ PastGuards(1)
    /\ limit[1] = 1
    /\ Len(ValidatedIn(before[1])) = 2
    /\ pc[1] = "done"

----------------------------------------------------------------------------
\* The sizing pass.

\* update_archive_sizes of p has returned
SizesUpdated(p) == pc[p] = "done" /\ op[p] = "update_archive_sizes"

\* the sizes the pass can write
ArchiveSizes == {convert_loop(s, 1, 1, TRUE) : s \in FileSizes}

\* every document that was Uploaded when the call of p began is Validated,
\* with a size read from the file system
UploadedAllValidated(p) ==
    \A i \in 1..Len(before[p]) :
        before[p][i].system_status = UPLOADED
            => /\ store[i].system_status = VALIDATED
               /\ store[i].system_size \in ArchiveSizes

\* the documents that were not Uploaded when the call of p began are as
\* they were, and no document came or went
OthersAsBefore(p) ==
    /\ Len(store) = Len(before[p])
    /\ \A i \in 1..Len(before[p]) :
        before[p][i].system_status # UPLOADED => store[i] = before[p][i]

C26_ProbeFailureSparesSiblings ==
    \A p \in Procs :
        SizesUpdated(p) =>
            Cardinality({i \in 1..Len(before[p]) :
                            /\ before[p][i].system_status = UPLOADED
                            /\ store[i].system_status # VALIDATED}) <= 1

----------------------------------------------------------------------------
\* Crashes.

\* some document is Converting and no call is in its phases: the status is
\* left over from a call that did not end
StaleConverting ==
    /\ HasStatus(store, CONVERTING)
    /\ \A p \in Procs : pc[p] \notin {"select", "mark", "convert",
                                      "reconcile", "fail"}

\* C22: while a Converting status is left over from a crashed call, every
\* step keeps it, no call gets past the guard, a call that returns returns
\* False, and no document is set to Converting, Converted or Failed.
C22_StaleConvertingBlocks ==
    [][StaleConverting =>
        /\ Len(store') >= Len(store)
        /\ \A i \in 1..Len(store) :
            /\ store[i].system_status = CONVERTING
                => store'[i].system_status = CONVERTING
            /\ store'[i].system_status # store[i].system_status
                => store'[i].system_status
                        \notin {CONVERTING, CONVERTED, FAILED}
        /\ \A p \in Procs :
            /\ pc'[p] \notin {"select", "mark", "convert", "reconcile",
                              "fail"}
            /\ (pc[p] = "guard" /\ pc'[p] = "done")
                => /\ ret'[p] = FALSE
                   /\ store' = store]_vars

\* after a crash with the converter running, the next call was rejected
\* while Validated documents wait
C22_Witness ==
    /\ ConvertReturned(1)
    /\ converter[1] = "crashed"
    /\ ret[1] = FALSE
    /\ HasStatus(store, CONVERTING)
    /\ HasStatus(store, VALIDATED)

----------------------------------------------------------------------------
\* Registration, archive by archive.

\* archive has its document in the store
Persisted(archive) ==
    \E j \in 1..Len(store) :
        /\ store[j].system_upload_uuid = archive.upload_uuid
        /\ store[j].system_path = archive.archive_path

\* C27: when the saving times of one archive of a registration cannot be
\* read, every archive of the call still has its document, that of the
\* archive that could not be read with status Corrupted.
C27_ProbeFailureSparesSiblings ==
    \A p \in Procs :
        (UploadsProcessed(p)
            /\ \E i \in 1..Len(scan[p].probes) :
                    scan[p].probes[i] = ProbeRaised)
            => \A i \in 1..Len(scan[p].archive_list) :
                /\ Persisted(scan[p].archive_list[i])
                /\ scan[p].probes[i] = ProbeRaised
                    => \E j \in 1..Len(store) :
                        /\ store[j].system_upload_uuid =
                            scan[p].archive_list[i].upload_uuid
                        /\ store[j].system_path =
                            scan[p].archive_list[i].archive_path
                        /\ store[j].system_status = CORRUPTED_STRING

\* C28: when the write of the meta data into the result file fails, every
\* archive handed to register_archives still has its document.
C28_MetaDataFailureNotFatal ==
    \A p \in Procs :
        (UploadsProcessed(p)
            /\ scan[p].lists_of_saving_time # <<>>
            /\ KeyError(write_meta_data_to_hdf5_keys, document_keys))
            => \A i \in 1..Len(scan[p].archive_list) :
                    Persisted(scan[p].archive_list[i])

----------------------------------------------------------------------------
\* Fields of the documents.

\* no two documents of docs have the same system_uuid
UuidsDistinct(docs) ==
    \A i \in 1..Len(docs) : \A j \in 1..Len(docs) :
        i # j => docs[i].system_uuid # docs[j].system_uuid

\* C29: the system_uuid of a document differs from that of every other
\* document, and no step of process_uploads, update_archive_sizes or
\* convert_archives_to_hdf5 changes the system_uuid of a document.
C29_UuidUniqueAndImmutable ==
    [][/\ UuidsDistinct(store)
       /\ UuidsDistinct(store')
       /\ \A i \in 1..Len(store) :
            /\ i <= Len(store')
            /\ store'[i].id = store[i].id
            /\ store'[i].system_uuid = store[i].system_uuid]_vars

\* a conversion of the second and third document of the store has returned
C29_Witness ==
    /\ ConvertReturned(1)
    /\ ret[1] = TRUE
    /\ Len(document_file_list[1]) >= 1
    /\ Len(store) >= 2
    /\ ~Selected(1, store[1])

\* C30: between calls, a document carries a system_size_hdf5 only when a
\* conversion call that succeeded converted it: its status is Converted.
C30_SizeOnlyAfterConversion ==
    (\A p \in Procs : pc[p] \in {"idle", "done"})
        => \A i \in 1..Len(store) :
                store[i].system_size_hdf5 # Unset
                    => store[i].system_status = CONVERTED

----------------------------------------------------------------------------
\* The return value of convert_archives_to_hdf5.

\* every document the call of p selected is Converted in the store
SelectedAllConverted(p) ==
    \A i \in 1..Len(store) :
        Selected(p, store[i]) => store[i].system_status = CONVERTED

\* C31 as stated: a call returns True exactly when it passed its guards and
\* every document it selected is Converted in the store at return.
C31_TrueIffSelectedConverted ==
    \A p \in Procs :
        ConvertReturned(p)
            => (ret[p] = TRUE <=> (PastGuards(p) /\ SelectedAllConverted(p)))

\* C31: a call returns True exactly when it passed its guards, every
\* document it selected is Converted in the store at return and, when it
\* selected no document, the converter returned; a call rejected by a guard
\* returns False, and so does one with a selected document that is Failed.
C31_TrueIffConverterReturned ==
    \A p \in Procs :
        ConvertReturned(p)
            => /\ ret[p] = TRUE <=>
                    /\ PastGuards(p)
                    /\ SelectedAllConverted(p)
                    /\ document_file_list[p] = <<>> => converter[p] = "returned"
               /\ ~PastGuards(p) => ret[p] = FALSE
               /\ (\E i \in 1..Len(store) :
                        /\ Selected(p, store[i])
                        /\ store[i].system_status = FAILED)
                    => ret[p] = FALSE

\* a call that selected nothing returned False after the converter raised
C31_Witness ==
    /\ ConvertReturned(1)
    /\ PastGuards(1)
    /\ document_file_list[1] = <<>>
    /\ converter[1] = "raised"
    /\ ret[1] = FALSE

----------------------------------------------------------------------------
\* Writes addressed by system_path.

\* no two documents of docs have the same system_path
PathsDistinct(docs) ==
    \A i \in 1..Len(docs) : \A j \in 1..Len(docs) :
        i # j => docs[i].system_path # docs[j].system_path

\* the document at position i of the store was read for the step p is about
\* to take: it is one of the copies of the running conversion, or it is
\* Uploaded and p calls update_archive_sizes
ReadFor(p, i) ==
    \/ /\ pc[p] \in {"mark", "reconcile", "fail"}
       /\ \E j \in 1..Len(document_file_list[p]) :
            document_file_list[p][j].id = store[i].id
    \/ /\ pc[p] = "idle"
       /\ op'[p] = "update_archive_sizes"
       /\ store[i].system_status = UPLOADED

----------------------------------------------------------------------------
\* Uploads that are registered in part.

\* the scan of p returned the archive of upload_uuid at archive_path
Returned(p, upload_uuid, archive_path) ==
    \E i \in 1..Len(scan[p].archive_list) :
        /\ scan[p].archive_list[i].upload_uuid = upload_uuid
        /\ scan[p].archive_list[i].archive_path = archive_path

\* C33: when process_uploads returns, also after a failure in the middle of
\* a registration, an upload the call made known to the store has a document
\* for each archive path of its descriptor, and a complete upload that had no
\* document when the call began was returned by the scan of the call with
\* every archive its descriptor lists.
C33_KnownUploadsWholeOthersReturned ==
    \A p \in Procs :
        UploadsProcessed(p) =>
            \A upload_uuid \in UploadUuids :
                LET paths == scan[p].descriptor[upload_uuid].archive_paths
                IN  /\ (KnownIn(store, upload_uuid)
                            /\ ~KnownIn(before[p], upload_uuid))
                        => \A k \in 1..Len(paths) :
                            \E j \in 1..Len(store) :
                                /\ store[j].system_upload_uuid = upload_uuid
                                /\ store[j].system_path =
                                    read_upload_info(upload_uuid,
                                        paths)[k].archive_path
                    /\ (/\ CompleteIn(scan[p].listing, upload_uuid)
                        /\ ~KnownIn(before[p], upload_uuid)
                        /\ scan[p].descriptor[upload_uuid].readable)
                        => \A k \in 1..Len(paths) :
                            Returned(p, upload_uuid,
                                read_upload_info(upload_uuid,
                                    paths)[k].archive_path)

----------------------------------------------------------------------------
\* Progress of the documents.

\* the document at position i of the store has one of statuses
StatusIn(i, statuses) ==
    /\ i <= Len(store)
    /\ store[i].system_status \in statuses

====
